---- MODULE Spec2Model ----
(***************************************************************************)
(* Model of pyEQL's salt matching library (salt_ion_match.py).             *)
(*                                                                         *)
(* A Python str is a sequence of one-character strings, so that split(),   *)
(* str() and concatenation are modelled by what they do.  A Solution is    *)
(* the enumeration order of its components mapping together with the       *)
(* molar amount get_amount returns for each key.  Each behaviour is one    *)
(* call of identify_salt, build_salt or _trim_formal_charge on arguments   *)
(* drawn from bounded sets; identify_salt records in sort_list the list    *)
(* _sort_components returned to it.                                        *)
(***************************************************************************)
EXTENDS Integers, Sequences, FiniteSets, TLC

VARIABLES op, Solution, cation, anion, formula, pc, result, log, sort_list, nu

vars == <<op, Solution, cation, anion, formula, pc, result, log, sort_list, nu>>

(* ------------------------------ bounds --------------------------------- *)
MaxSpecies == 5
MaxMixed == 3
MaxAmount == 2
MaxCharge == 4
MaxLen == 3

(* ------------------------- Python primitives --------------------------- *)
Digits == <<"0", "1", "2", "3", "4", "5", "6", "7", "8", "9">>

DigitSet == {Digits[i] : i \in 1..10}

DigitVal(c) == (CHOOSE i \in 1..10 : Digits[i] = c) - 1

Abs(x) == IF x < 0 THEN -x ELSE x

RECURSIVE Str(_)
Str(n) == IF n < 10 THEN <<Digits[n + 1]>> ELSE Str(n \div 10) \o <<Digits[(n % 10) + 1]>>

RECURSIVE ParseInt(_)
ParseInt(s) ==
    IF Len(s) = 0 THEN 0
    ELSE 10 * ParseInt(SubSeq(s, 1, Len(s) - 1)) + DigitVal(s[Len(s)])

\* s.split(ch)[0]: the text before the first ch, the whole text without one
SplitHead(s, ch) ==
    LET hits == {i \in 1..Len(s) : s[i] = ch}
    IN  IF hits = {} THEN s
        ELSE SubSeq(s, 1, (CHOOSE i \in hits : \A j \in hits : i <= j) - 1)

\* length of the longest suffix of s made of characters of set
TrailRun(s, set) ==
    CHOOSE k \in 0..Len(s) :
        /\ \A i \in (Len(s) - k + 1)..Len(s) : s[i] \in set
        /\ (k = Len(s) \/ s[Len(s) - k] \notin set)

(* ------------------- chemical_formula.get_formal_charge ---------------- *)
get_formal_charge(f) ==
    LET nd   == TrailRun(f, DigitSet)
        body == SubSeq(f, 1, Len(f) - nd)
        num  == ParseInt(SubSeq(f, Len(f) - nd + 1, Len(f)))
    IN  IF nd > 0
        THEN IF Len(body) > 0 /\ body[Len(body)] = "+" THEN num
             ELSE IF Len(body) > 0 /\ body[Len(body)] = "-" THEN -num
             ELSE 0
        ELSE IF TrailRun(f, {"+"}) > 0 THEN TrailRun(f, {"+"})
             ELSE IF TrailRun(f, {"-"}) > 0 THEN -TrailRun(f, {"-"})
             ELSE 0

(* ------------------------------ Solution ------------------------------- *)
IndexOf(seq, x) == CHOOSE i \in 1..Len(seq) : seq[i] = x

get_amount(S, item) == S.mol[IndexOf(S.components, item)]

(* --------------------------- _sort_components -------------------------- *)
\* sorted(..., reverse=True) is stable: x goes after every element whose
\* key is >= its own
RECURSIVE InsertDesc(_, _, _)
InsertDesc(out, x, S) ==
    IF Len(out) = 0 THEN <<x>>
    ELSE IF get_amount(S, Head(out)) >= get_amount(S, x)
         THEN <<Head(out)>> \o InsertDesc(Tail(out), x, S)
         ELSE <<x>> \o out

RECURSIVE SortedDesc(_, _)
SortedDesc(list, S) ==
    IF Len(list) = 0 THEN <<>>
    ELSE InsertDesc(SortedDesc(SubSeq(list, 1, Len(list) - 1), S), list[Len(list)], S)

Reverse(s) == [i \in 1..Len(s) |-> s[Len(s) + 1 - i]]

RECURSIVE InsertAsc(_, _, _)
InsertAsc(out, x, S) ==
    IF Len(out) = 0 THEN <<x>>
    ELSE IF get_amount(S, Head(out)) <= get_amount(S, x)
         THEN <<Head(out)>> \o InsertAsc(Tail(out), x, S)
         ELSE <<x>> \o out

RECURSIVE SortedAsc(_, _)
SortedAsc(list, S) ==
    IF Len(list) = 0 THEN <<>>
    ELSE InsertAsc(SortedAsc(SubSeq(list, 1, Len(list) - 1), S), list[Len(list)], S)

\* bug: reverse=True dropped
sort_components_ascending(S) == SortedAsc(S.components, S)

\* bug: ascending sort followed by reversal, which reverses ties
sort_components_reversed(S) == Reverse(SortedAsc(S.components, S))

_sort_components(S) == SortedDesc(S.components, S)

(* -------------------------- _trim_formal_charge ------------------------ *)
\* bug: both branches split on '+'
trim_formal_charge_plus_only(f) ==
    LET charge == get_formal_charge(f)
    IN  IF charge > 0 THEN SplitHead(f, "+")
        ELSE IF charge < 0 THEN SplitHead(f, "+")
        ELSE <<>>

_trim_formal_charge(f) ==
    LET charge == get_formal_charge(f)
    IN  IF charge > 0 THEN SplitHead(f, "+")
        ELSE IF charge < 0 THEN SplitHead(f, "-")
        ELSE <<>>

(* ------------------------------- build_salt ---------------------------- *)
\* bug: coefficients not crossed
stoich_uncrossed(c, a) ==
    LET z_cation == get_formal_charge(c)
        z_anion  == get_formal_charge(a)
        nu_cation == Abs(z_cation)
        nu_anion  == Abs(z_anion)
    IN  IF nu_cation = nu_anion
        THEN [cation |-> 1, anion |-> 1]
        ELSE [cation |-> nu_cation, anion |-> nu_anion]

stoich(c, a) ==
    LET z_cation == get_formal_charge(c)
        z_anion  == get_formal_charge(a)
        nu_cation == Abs(z_anion)
        nu_anion  == Abs(z_cation)
    IN  IF nu_cation = nu_anion
        THEN [cation |-> 1, anion |-> 1]
        ELSE [cation |-> nu_cation, anion |-> nu_anion]

\* bug: the anion block is rendered with the cation's coefficient
build_salt_same_count(c, a) ==
    LET n == stoich(c, a)
        cation_block == IF n.cation > 1
                        THEN <<"(">> \o _trim_formal_charge(c) \o <<")">> \o Str(n.cation)
                        ELSE _trim_formal_charge(c)
        anion_block  == IF n.cation > 1
                        THEN <<"(">> \o _trim_formal_charge(a) \o <<")">> \o Str(n.cation)
                        ELSE _trim_formal_charge(a)
    IN  cation_block \o anion_block

\* bug: a coefficient is rendered whenever it differs from one
build_salt_not_one(c, a) ==
    LET n == stoich(c, a)
        cation_block == IF n.cation # 1
                        THEN <<"(">> \o _trim_formal_charge(c) \o <<")">> \o Str(n.cation)
                        ELSE _trim_formal_charge(c)
        anion_block  == IF n.anion # 1
                        THEN <<"(">> \o _trim_formal_charge(a) \o <<")">> \o Str(n.anion)
                        ELSE _trim_formal_charge(a)
    IN  cation_block \o anion_block

build_salt(c, a) ==
    LET n == stoich(c, a)
        cation_block == IF n.cation > 1
                        THEN <<"(">> \o _trim_formal_charge(c) \o <<")">> \o Str(n.cation)
                        ELSE _trim_formal_charge(c)
        anion_block  == IF n.anion > 1
                        THEN <<"(">> \o _trim_formal_charge(a) \o <<")">> \o Str(n.anion)
                        ELSE _trim_formal_charge(a)
    IN  cation_block \o anion_block

(* ------------------------------ identify_salt -------------------------- *)
H2O == <<"H", "2", "O">>

Warning == [level |-> "WARNING", msg |-> "H2O is not the most prominent component"]

\* bug: slots are reassigned by every later species of the same sign
RECURSIVE scan_reassign(_, _, _, _)
scan_reassign(list, i, c, a) ==
    IF i > Len(list) THEN [cation |-> c, anion |-> a]
    ELSE IF get_formal_charge(list[i]) > 0 THEN scan_reassign(list, i + 1, list[i], a)
    ELSE IF get_formal_charge(list[i]) < 0 THEN scan_reassign(list, i + 1, c, list[i])
    ELSE scan_reassign(list, i + 1, c, a)

RECURSIVE scan_loop(_, _, _, _)
scan_loop(list, i, c, a) ==
    IF i > Len(list) THEN [cation |-> c, anion |-> a]
    ELSE IF get_formal_charge(list[i]) > 0 /\ c = <<>> THEN scan_loop(list, i + 1, list[i], a)
    ELSE IF get_formal_charge(list[i]) < 0 /\ a = <<>> THEN scan_loop(list, i + 1, c, list[i])
    ELSE scan_loop(list, i + 1, c, a)

scan_sort_list_reassign(list) == scan_reassign(list, 1, <<>>, <<>>)

\* the for loop of identify_salt
scan_sort_list(list) == scan_loop(list, 1, <<>>, <<>>)

Frame(kind, value, lg, sl, c, a) ==
    [kind |-> kind, value |-> value, log |-> lg, sort_list |-> sl, cation |-> c, anion |-> a]

\* bug: the warning branch does not return
identify_salt_no_return(S) ==
    LET sl == _sort_components(S)
    IN  IF Len(sl) = 0 THEN Frame("IndexError", <<>>, <<>>, sl, <<>>, <<>>)
        ELSE LET ions == scan_sort_list(sl)
                 lg   == IF sl[1] # H2O THEN <<Warning>> ELSE <<>>
             IN  Frame("str", build_salt(ions.cation, ions.anion), lg, sl, ions.cation, ions.anion)

\* bug: an empty ranking is treated as a non-aqueous solution
identify_salt_empty_guard(S) ==
    LET sl == _sort_components(S)
    IN  IF Len(sl) = 0 \/ sl[1] # H2O THEN Frame("None", <<>>, <<Warning>>, sl, <<>>, <<>>)
        ELSE LET ions == scan_sort_list(sl)
             IN  Frame("str", build_salt(ions.cation, ions.anion), <<>>, sl, ions.cation, ions.anion)

identify_salt(S) ==
    LET sl == _sort_components(S)
    IN  IF Len(sl) = 0 THEN Frame("IndexError", <<>>, <<>>, sl, <<>>, <<>>)
        ELSE IF sl[1] # H2O THEN Frame("None", <<>>, <<Warning>>, sl, <<>>, <<>>)
        ELSE LET ions == scan_sort_list(sl)
             IN  Frame("str", build_salt(ions.cation, ions.anion), <<>>, sl, ions.cation, ions.anion)

(* ------------------------------- inputs -------------------------------- *)
Na1 == <<"N", "a", "+">>

Cl1 == <<"C", "l", "-">>

H1 == <<"H", "+">>

OH1 == <<"O", "H", "-">>

Mg2 == <<"M", "g", "+", "2">>

SO4 == <<"S", "O", "4", "-", "2">>

\* water with a monovalent salt and the ions of water
Species == {H2O, Na1, Cl1, H1, OH1}

\* water with polyvalent and monovalent ions
MixedSpecies == {H2O, Mg2, SO4, Na1, Cl1}

\* the key orders of a components mapping of at most n species of U
KeyOrders(U, n) ==
    UNION { {c \in [1..k -> U] : \A i, j \in 1..k : c[i] = c[j] => i = j} : k \in 0..n }

Repeat(ch, n) == [i \in 1..n |-> ch]

ChargeSuffixes(ch) ==
    {Repeat(ch, n) : n \in 1..MaxCharge} \cup {<<ch>> \o Str(n) : n \in 1..MaxCharge}

CationBases == {<<"N", "a">>, <<"M", "g">>, <<"F", "e">>}

AnionBases == {<<"C", "l">>, <<"S", "O", "4">>}

Cations == {b \o s : b \in CationBases, s \in ChargeSuffixes("+")}

Anions == {b \o s : b \in AnionBases, s \in ChargeSuffixes("-")}

Alphabet == {"A", "2", "+", "-"}

Strings == UNION {[1..k -> Alphabet] : k \in 0..MaxLen}

Formulas == Strings \cup Cations \cup Anions \cup Species \cup MixedSpecies

NoResult == [kind |-> "pending", value |-> <<>>]

NoNu == [cation |-> 0, anion |-> 0]

(* ---------------------------- state machine ---------------------------- *)
\* a call about to be made: the function and the arguments it is given
Init ==
    /\ pc = "call"
    /\ result = NoResult
    /\ log = <<>>
    /\ sort_list = <<>>
    /\ nu = NoNu
    /\ \/ /\ op = "identify_salt"
          /\ Solution \in {[components |-> c, mol |-> <<>>] :
                             c \in KeyOrders(Species, MaxSpecies)
                                   \cup KeyOrders(MixedSpecies, MaxMixed)}
          /\ cation = <<>> /\ anion = <<>> /\ formula = <<>>
       \/ /\ op = "build_salt"
          /\ cation \in Cations \cup {<<>>}
          /\ anion \in Anions \cup {<<>>}
          /\ Solution = [components |-> <<>>, mol |-> <<>>] /\ formula = <<>>
       \/ /\ op = "_trim_formal_charge"
          /\ formula \in Formulas
          /\ Solution = [components |-> <<>>, mol |-> <<>>]
          /\ cation = <<>> /\ anion = <<>>

\* identify_salt(Solution); mol are the amounts get_amount(item, 'mol') answers
IdentifySalt ==
    /\ pc = "call" /\ op = "identify_salt"
    /\ \E m \in [1..Len(Solution.components) -> 0..MaxAmount] :
          LET S == [components |-> Solution.components, mol |-> m]
              f == identify_salt(S)
          IN  /\ Solution' = S
              /\ result' = [kind |-> f.kind, value |-> f.value]
              /\ log' = log \o f.log
              /\ sort_list' = f.sort_list
              /\ cation' = f.cation
              /\ anion' = f.anion
              /\ nu' = IF f.kind = "str" THEN stoich(f.cation, f.anion) ELSE nu
    /\ pc' = "done"
    /\ UNCHANGED <<op, formula>>

\* build_salt(cation, anion)
BuildSalt ==
    /\ pc = "call" /\ op = "build_salt"
    /\ result' = [kind |-> "str", value |-> build_salt(cation, anion)]
    /\ nu' = stoich(cation, anion)
    /\ pc' = "done"
    /\ UNCHANGED <<op, Solution, cation, anion, formula, log, sort_list>>

\* _trim_formal_charge(formula)
TrimFormalCharge ==
    /\ pc = "call" /\ op = "_trim_formal_charge"
    /\ result' = [kind |-> "str", value |-> _trim_formal_charge(formula)]
    /\ pc' = "done"
    /\ UNCHANGED <<op, Solution, cation, anion, formula, log, sort_list, nu>>

Next == IdentifySalt \/ BuildSalt \/ TrimFormalCharge

Spec == Init /\ [][Next]_vars

(* ------------------------------ properties ----------------------------- *)
Done(o) == pc = "done" /\ op = o

KeySet == {Solution.components[i] : i \in 1..Len(Solution.components)}

Amount(x) == Solution.mol[IndexOf(Solution.components, x)]

KeyIndex(x) == IndexOf(Solution.components, x)

WaterDominant == Len(sort_list) > 0 /\ sort_list[1] = H2O

RECURSIVE TakeUntil(_, _)
TakeUntil(s, ch) ==
    IF Len(s) = 0 \/ Head(s) = ch THEN <<>> ELSE <<Head(s)>> \o TakeUntil(Tail(s), ch)

\* the text of x before its first charge marker
Bare(x) ==
    IF get_formal_charge(x) > 0 THEN TakeUntil(x, "+")
    ELSE IF get_formal_charge(x) < 0 THEN TakeUntil(x, "-")
    ELSE <<>>

Block(x, n) == IF n <= 1 THEN Bare(x) ELSE <<"(">> \o Bare(x) \o <<")">> \o Str(n)

CountCation(c, a) ==
    IF Abs(get_formal_charge(c)) = Abs(get_formal_charge(a)) THEN 1 ELSE Abs(get_formal_charge(a))

CountAnion(c, a) ==
    IF Abs(get_formal_charge(c)) = Abs(get_formal_charge(a)) THEN 1 ELSE Abs(get_formal_charge(c))

\* the earliest species of the ranked list whose charge has sign sgn, '' without one
Earliest(list, sgn) ==
    LET hits == {i \in 1..Len(list) : get_formal_charge(list[i]) * sgn > 0}
    IN  IF hits = {} THEN <<>> ELSE list[CHOOSE i \in hits : \A j \in hits : i <= j]

Positive == {x \in KeySet : get_formal_charge(x) > 0}

Negative == {x \in KeySet : get_formal_charge(x) < 0}

C2_RankIsDescendingPermutation ==
    Done("identify_salt") =>
        /\ Len(sort_list) = Len(Solution.components)
        /\ \A i \in 1..Len(sort_list) : sort_list[i] \in KeySet
        /\ \A x \in KeySet : Cardinality({i \in 1..Len(sort_list) : sort_list[i] = x}) = 1
        /\ \A i, j \in 1..Len(sort_list) :
              i < j => Amount(sort_list[i]) >= Amount(sort_list[j])

C2_Witness ==
    /\ Done("identify_salt")
    /\ Len(sort_list) = 5
    /\ sort_list # Solution.components
    /\ H2O \in KeySet
    /\ Amount(sort_list[1]) > Amount(sort_list[3])
    /\ Amount(sort_list[3]) > Amount(sort_list[5])

C4_DocumentedFormulas ==
    Done("build_salt") =>
        /\ (cation = <<"M", "g", "+", "2">> /\ anion = <<"C", "l", "-">>)
              => result.value = <<"M", "g", "C", "l", "2">>
        /\ (cation = <<"F", "e", "+", "3">> /\ anion = <<"S", "O", "4", "-", "2">>)
              => result.value = <<"F", "e", "2", "(", "S", "O", "4", ")", "3">>

C6_TrimIsPrefixBeforeMarker ==
    Done("_trim_formal_charge") =>
        /\ get_formal_charge(formula) > 0 => result.value = TakeUntil(formula, "+")
        /\ get_formal_charge(formula) < 0 => result.value = TakeUntil(formula, "-")
        /\ get_formal_charge(formula) = 0 => result.value = <<>>
        /\ formula = <<"F", "e", "+", "+", "+">> => result.value = <<"F", "e">>
        /\ formula = SO4 => result.value = <<"S", "O", "4">>
        /\ formula = Na1 => result.value = <<"N", "a">>

C6_Witness ==
    /\ Done("_trim_formal_charge")
    /\ formula = SO4
    /\ result.value = <<"S", "O", "4">>

\* C7: with "H2O" highest-ranked identify_salt returns build_salt(c, a) for the
\* earliest positive species c and the earliest negative species a of the ranked
\* list; water dominant over equal Na+ and Cl- over traces of H+ and OH- gives
\* "NaCl".
C7_EarliestIonsChosen ==
    (Done("identify_salt") /\ WaterDominant) =>
        /\ cation = Earliest(sort_list, 1)
        /\ anion = Earliest(sort_list, -1)
        /\ result = [kind |-> "str", value |-> build_salt(cation, anion)]
        /\ (/\ KeySet = Species
            /\ Amount(H2O) > Amount(Na1)
            /\ Amount(Na1) = Amount(Cl1)
            /\ Amount(Na1) > Amount(H1)
            /\ Amount(Na1) > Amount(OH1)) => result.value = <<"N", "a", "C", "l">>

C7_Witness ==
    /\ Done("identify_salt")
    /\ Solution.components = <<H1, OH1, H2O, Na1, Cl1>>
    /\ Solution.mol = <<0, 0, 2, 1, 1>>
    /\ result = [kind |-> "str", value |-> <<"N", "a", "C", "l">>]

\* C8: species with equal molar amounts keep, in the ranked list, the relative
\* order in which the components mapping enumerates them, so among equal-amount
\* species of one sign identify_salt takes the one enumerated first.
C8_TiesKeepKeyOrder ==
    Done("identify_salt") =>
        /\ \A i, j \in 1..Len(sort_list) :
              (i < j /\ Amount(sort_list[i]) = Amount(sort_list[j]))
                  => KeyIndex(sort_list[i]) < KeyIndex(sort_list[j])
        /\ result.kind = "str" =>
              /\ \A x \in Positive : Amount(x) = Amount(cation) => KeyIndex(cation) <= KeyIndex(x)
              /\ \A x \in Negative : Amount(x) = Amount(anion) => KeyIndex(anion) <= KeyIndex(x)

C8_Witness ==
    /\ Done("identify_salt")
    /\ Solution.components = <<H1, H2O, Cl1, Na1>>
    /\ Solution.mol = <<1, 2, 1, 1>>
    /\ sort_list = <<H2O, H1, Cl1, Na1>>
    /\ cation = H1

\* C9: with "H2O" highest-ranked and no positive or no negative species,
\* identify_salt raises nothing: the unfilled slot is the empty string, whose
\* parsed charge is 0, and the string returned is build_salt's, in which the
\* unfilled slot gives nothing or "()" and a count and the ion found is bare.
C9_MissingIonDegrades ==
    (Done("identify_salt") /\ WaterDominant /\ (Positive = {} \/ Negative = {})) =>
        /\ result = [kind |-> "str", value |-> build_salt(cation, anion)]
        /\ get_formal_charge(<<>>) = 0
        /\ Positive = {} => cation = <<>>
        /\ Negative = {} => anion = <<>>
        /\ (Positive = {} /\ Negative = {}) => result.value = <<>>
        /\ (Positive = {} /\ Negative # {}) =>
              result.value \in {Bare(anion),
                                <<"(", ")">> \o Str(Abs(get_formal_charge(anion))) \o Bare(anion)}
        /\ (Positive # {} /\ Negative = {}) =>
              result.value \in {Bare(cation),
                                Bare(cation) \o <<"(", ")">> \o Str(Abs(get_formal_charge(cation)))}

C9_Witness ==
    /\ Done("identify_salt")
    /\ WaterDominant
    /\ Positive = {}
    /\ anion = SO4
    /\ result = [kind |-> "str", value |-> <<"(", ")", "2", "S", "O", "4">>]

\* C10: for a solution without species _sort_components returns the empty list
\* and identify_salt fails reading its first element: it returns neither None
\* nor a string and logs nothing.
C10_EmptySolutionRaises ==
    (Done("identify_salt") /\ Solution.components = <<>>) =>
        /\ sort_list = <<>>
        /\ result.kind = "IndexError"
        /\ log = <<>>

C10_Witness ==
    /\ Done("identify_salt")
    /\ Solution.components = <<>>
    /\ result.kind = "IndexError"

====
